---- MODULE Spec2Model ----
(***************************************************************************)
(* The adaptive sample store of swyft (src/swyft/store/store.py): a zarr   *)
(* group shared by several OS processes.  Every zarr call of the source    *)
(* (append, resize, an indexed read or write) is one step acting on the    *)
(* array as it is at that moment; what the source does in several calls    *)
(* (read a length, then resize to it, then write) is several steps, and    *)
(* the steps of different processes interleave.  Rows are numbered from 1  *)
(* here (row i is index i-1 of the source).  The store is a DirectoryStore:*)
(* it always has a sync path, hence a process lock.                        *)
(***************************************************************************)
EXTENDS Integers, Sequences, FiniteSets, TLC

\* ---------------------------------------------------------------- bounds
MaxRows == 2
MaxK == 1
NZ == 2

\* The cooperating OS processes that share the store.
Procs == {"p1", "p2"}
NoProc == "none"
Z == 1..NZ
Rows == 1..MaxRows

\* ---------------------------------------------------- SimulationStatus
PENDING == 0
RUNNING == 1
FINISHED == 2
FAILED == 2

SimulationStatus == {PENDING, RUNNING, FINISHED, FAILED}

\* ------------------------------------------------------------ densities
\* -np.inf; every finite log-value of the model is far above it.
NegInf == -100

Add(a, b) == IF a = NegInf \/ b = NegInf THEN NegInf ELSE a + b

\* np.log on the counts the model submits (base-2 units).
Log(n) == CASE n = 1 -> 0 [] n = 2 -> 1 [] n = 4 -> 2

Ns == {2}

\* np.log(np.random.rand()): rand() is in [0, 1), so the log is negative,
\* and minus infinity when the draw is exactly 0.
LogUs == {-1, NegInf}

\* The density objects: "wide" is flat on Z, "narrow" sits on z = 1 with
\* twice the density.
Pdfs == {"wide", "narrow"}

LogProb(pdf, z) ==
    CASE pdf = "wide" -> 0
      [] pdf = "narrow" -> IF z = 1 THEN 1 ELSE NegInf

Support(pdf) == {z \in Z : LogProb(pdf, z) # NegInf}

StateDict(pdf) == [method |-> "from_torch_distribution", name |-> pdf]

FromStateDict(sd) == sd.name

\* A ledger slot that a resize created and nobody has written yet.
NoRec == [method |-> "fill_value"]

\* The named simulation outputs, in the order sims.items() yields them.
SimKeys == <<"x">>

\* What the simulator returns for parameter z under output name k, and
\* the zeros a resize fills new slots with.
SimOut(z, k) == 10 * z + (IF k = "x" THEN 1 ELSE 2)
SimFill == 0

\* ------------------------------------------------------- array helpers
\* zarr resize: cut or extend with the fill value.
Resize(s, n, fill) == [i \in 1..n |-> IF i <= Len(s) THEN s[i] ELSE fill]

\* Boolean-mask selection a[mask], order kept.
RECURSIVE Masked(_, _)
Masked(a, mask) ==
    IF a = <<>> THEN <<>>
    ELSE IF Head(mask) THEN <<Head(a)>> \o Masked(Tail(a), Tail(mask))
         ELSE Masked(Tail(a), Tail(mask))

\* The members of a set of row numbers in increasing order.
RECURSIVE Sorted(_)
Sorted(S) ==
    IF S = {} THEN <<>>
    ELSE LET m == CHOOSE x \in S : \A y \in S : x <= y
         IN <<m>> \o Sorted(S \ {m})

Range(s) == {s[i] : i \in 1..Len(s)}

\* ------------------------------------------------------------ variables
\* Filesystem: the paths of the arrays in the root group, in the order
\* _setup_new_store creates them.
Layout ==
    {"samples/pars", "samples/sims", "samples/log_w", "metadata/log_lambdas",
     "samples/simulation_status"}

VARIABLES
    pars,          \* samples/pars
    sims,          \* samples/sims/<name>
    log_w,         \* samples/log_w
    sim_status,    \* samples/simulation_status
    log_lambdas,   \* metadata/log_lambdas
    lockHolder,    \* the process holding cache.lock, or NoProc
    pc,            \* each process's position
    args,          \* the arguments of the call a process is in
    z_new,         \* sample: accepted candidates
    log_w_new,     \* sample: their log-weights
    shape,         \* a length read from an array, to be resized to
    key,           \* position in the loop over sims.items()
    idx,           \* simulate: the rows this call claims
    res,           \* simulate: what simulator.run returned
    pos,           \* simulate: position in the loop over the batch
    ret,           \* what the last finished call returned or raised
    claimed,       \* history: how often each row was set RUNNING by a simulate call
    handed,        \* history: how often each row was given to simulator.run
    invalid,       \* history: the rows simulator.run reported as not valid
    appended,      \* history: the rows the sample call in progress has added to pars
    root,          \* the paths present in the zarr root group
    cache_x,       \* legacy Cache: samples/x
    cache_z,       \* legacy Cache: samples/z
    cache_m,       \* legacy Cache: samples/requires_simulation
    cache_f,       \* legacy Cache: samples/failed_simulation
    cache_wu,      \* legacy Cache: samples/which_intensity
    cache_u,       \* legacy Cache: metadata/intensity
    ds_x,          \* DataStoreZarr: samples/x
    ds_z,          \* DataStoreZarr: samples/z
    ds_m,          \* DataStoreZarr: metadata/needs_sim
    ds_u           \* DataStoreZarr: metadata/intensity

store == <<pars, sims, log_w, sim_status, log_lambdas>>
locals == <<args, z_new, log_w_new, shape, key, idx, res, pos>>
history == <<claimed, handed, invalid, appended>>
cache == <<cache_x, cache_z, cache_m, cache_f, cache_wu, cache_u>>
datastore == <<ds_x, ds_z, ds_m, ds_u>>
legacy == <<cache, datastore>>
vars == <<store, lockHolder, pc, locals, ret, history, root, legacy>>

\* The arrays of the legacy classes, as their constructors create them.
LegacyInit ==
    /\ cache_x = <<>> /\ cache_z = <<>> /\ cache_m = <<>> /\ cache_f = <<>>
    /\ cache_wu = <<>> /\ cache_u = <<>>
    /\ ds_x = <<>> /\ ds_z = <<>> /\ ds_m = <<>> /\ ds_u = <<>>

\* ----------------------------------------------------------------- Init
\* Store.__init__ on an empty root: _setup_new_store creates every array
\* with length 0; no process holds the lock.
Init ==
    /\ pars = <<>>
    /\ sims = [k \in Range(SimKeys) |-> <<>>]
    /\ log_w = <<>>
    /\ sim_status = <<>>
    /\ log_lambdas = <<>>
    /\ lockHolder = NoProc
    /\ pc = [p \in Procs |-> "idle"]
    /\ args = [p \in Procs |-> [op |-> "none"]]
    /\ z_new = [p \in Procs |-> <<>>]
    /\ log_w_new = [p \in Procs |-> <<>>]
    /\ shape = [p \in Procs |-> 0]
    /\ key = [p \in Procs |-> 1]
    /\ idx = [p \in Procs |-> <<>>]
    /\ res = [p \in Procs |-> <<>>]
    /\ pos = [p \in Procs |-> 1]
    /\ ret = [p \in Procs |-> [kind |-> "none"]]
    /\ claimed = [i \in Rows |-> 0]
    /\ handed = [i \in Rows |-> 0]
    /\ invalid = {}
    /\ appended = [p \in Procs |-> {}]
    /\ root = Layout
    /\ LegacyInit

\* A call ends: back to idle with the locals cleared.
Return(p, value) ==
    /\ pc' = [pc EXCEPT ![p] = "idle"]
    /\ ret' = [ret EXCEPT ![p] = value]
    /\ args' = [args EXCEPT ![p] = [op |-> "none"]]
    /\ z_new' = [z_new EXCEPT ![p] = <<>>]
    /\ log_w_new' = [log_w_new EXCEPT ![p] = <<>>]
    /\ shape' = [shape EXCEPT ![p] = 0]
    /\ key' = [key EXCEPT ![p] = 1]
    /\ idx' = [idx EXCEPT ![p] = <<>>]
    /\ res' = [res EXCEPT ![p] = <<>>]
    /\ pos' = [pos EXCEPT ![p] = 1]

Raise(p, exc) == Return(p, [kind |-> "raised", op |-> args[p].op, exc |-> exc])

\* ------------------------------------------------------------ log_lambda
\* Store.log_lambda at one point z: d starts at -inf and each record
\* raises it to pdf.log_prob(z) + log N where that is larger.
\* A loop that keeps the last record's value, whatever came before.
RECURSIVE LogLambdaLast(_, _, _, _)
LogLambdaLast(ledger, i, z, d) ==
    IF i > Len(ledger) THEN d
    ELSE LogLambdaLast(ledger, i + 1, z,
                       Add(LogProb(FromStateDict(ledger[i].pdf), z), Log(ledger[i].N)))

RECURSIVE LogLambdaFrom(_, _, _, _)
LogLambdaFrom(ledger, i, z, d) ==
    IF i > Len(ledger) THEN d
    ELSE LET pdf == FromStateDict(ledger[i].pdf)
             r == Add(LogProb(pdf, z), Log(ledger[i].N))
         IN LogLambdaFrom(ledger, i + 1, z, IF r > d THEN r ELSE d)

log_lambda(ledger, z) == LogLambdaFrom(ledger, 1, z, NegInf)

\* Reading a record nobody wrote: the fill value has no 'pdf' entry.
Readable(ledger) == \A i \in 1..Len(ledger) : ledger[i] # NoRec

\* ---------------------------------------------------------------- sample
\* Rows accepted by a sample call that are not in samples/pars yet.
InFlight ==
    LET waiting == {q \in Procs : pc[q] \in {"az_shape", "az_resize", "az_pars"}}
        RECURSIVE Sum(_)
        Sum(S) == IF S = {} THEN 0
                  ELSE LET q == CHOOSE x \in S : TRUE
                       IN Len(z_new[q]) + Sum(S \ {q})
    IN Sum(waiting)

LogLambdaTarget(pdf, N, zs) ==
    [j \in 1..Len(zs) |-> Add(LogProb(pdf, zs[j]), Log(N))]

LogLambdaStore(ledger, zs) ==
    [j \in 1..Len(zs) |-> log_lambda(ledger, zs[j])]

\* A proposal in which the uniform draw enters with the wrong sign.
ProposedAboveTarget(logu, target) ==
    [j \in 1..Len(target) |-> Add(1, target[j])]

ProposedLogW(logu, target) ==
    [j \in 1..Len(target) |-> Add(logu[j], target[j])]

AcceptNew(w, lstore) == [j \in 1..Len(w) |-> w[j] > lstore[j]]

\* Store.sample, lines 253-265: draw the candidates, weigh them against
\* the envelope, keep the ones above it.
SamplePropose(p) ==
    /\ pc[p] = "idle"
    /\ \E N \in Ns, pdf \in Pdfs, K \in 0..MaxK :
         /\ Len(pars) + InFlight + K <= MaxRows
         /\ \E z_prop \in [1..K -> Support(pdf)], logu \in [1..K -> LogUs] :
              IF ~Readable(log_lambdas)
              THEN Return(p, [kind |-> "raised", op |-> "sample", exc |-> "TypeError"])
              ELSE LET target == LogLambdaTarget(pdf, N, z_prop)
                       lstore == LogLambdaStore(log_lambdas, z_prop)
                       w == ProposedLogW(logu, target)
                       accept_new == AcceptNew(w, lstore)
                       zn == Masked(z_prop, accept_new)
                   IN /\ args' = [args EXCEPT ![p] = [op |-> "sample", N |-> N, pdf |-> pdf]]
                      /\ z_new' = [z_new EXCEPT ![p] = zn]
                      /\ log_w_new' = [log_w_new EXCEPT ![p] = Masked(w, accept_new)]
                      /\ pc' = [pc EXCEPT ![p] = IF Len(zn) > 0 THEN "az_shape" ELSE "select"]
                      /\ ret' = [ret EXCEPT ![p] = [kind |-> "none"]]
                      /\ UNCHANGED <<shape, key, idx, res, pos>>
    /\ UNCHANGED <<store, lockHolder, history>>
    /\ UNCHANGED <<root, legacy>>

\* A shape that is read and not raised by the number of new rows.
AzShapeNoGrowth(p) ==
    /\ pc[p] = "az_shape"
    /\ shape' = [shape EXCEPT ![p] = Len(sims[SimKeys[key[p]]])]
    /\ pc' = [pc EXCEPT ![p] = "az_resize"]
    /\ UNCHANGED <<store, lockHolder, args, z_new, log_w_new, key,
                   idx, res, pos, ret, history>>
    /\ UNCHANGED <<root, legacy>>

\* Store._append_z, lines 218-220: shape = list(value.shape); shape[0] += n
AzShape(p) ==
    /\ pc[p] = "az_shape"
    /\ shape' = [shape EXCEPT ![p] = Len(sims[SimKeys[key[p]]]) + Len(z_new[p])]
    /\ pc' = [pc EXCEPT ![p] = "az_resize"]
    /\ UNCHANGED <<store, lockHolder, args, z_new, log_w_new, key,
                   idx, res, pos, ret, history>>
    /\ UNCHANGED <<root, legacy>>

\* Store._append_z, line 221: value.resize(*shape), then the next output.
AzResize(p) ==
    /\ pc[p] = "az_resize"
    /\ sims' = [sims EXCEPT ![SimKeys[key[p]]] = Resize(@, shape[p], SimFill)]
    /\ IF key[p] < Len(SimKeys)
       THEN /\ key' = [key EXCEPT ![p] = @ + 1]
            /\ pc' = [pc EXCEPT ![p] = "az_shape"]
       ELSE /\ key' = [key EXCEPT ![p] = 1]
            /\ pc' = [pc EXCEPT ![p] = "az_pars"]
    /\ UNCHANGED <<pars, log_w, sim_status, log_lambdas, lockHolder, args, z_new,
                   log_w_new, shape, idx, res, pos, ret, history>>
    /\ UNCHANGED <<root, legacy>>

\* An append that puts the new rows in front.
AzParsInFront(p) ==
    /\ pc[p] = "az_pars"
    /\ pars' = z_new[p] \o pars
    /\ appended' = [appended EXCEPT ![p] = 1..Len(z_new[p])]
    /\ pc' = [pc EXCEPT ![p] = "az_log_w"]
    /\ UNCHANGED <<sims, log_w, sim_status, log_lambdas, lockHolder, locals, ret,
                   claimed, handed, invalid>>
    /\ UNCHANGED <<root, legacy>>

\* Store._append_z, line 223: pars.append(z)
AzPars(p) ==
    /\ pc[p] = "az_pars"
    /\ pars' = pars \o z_new[p]
    /\ appended' = [appended EXCEPT ![p] = (Len(pars) + 1)..(Len(pars) + Len(z_new[p]))]
    /\ pc' = [pc EXCEPT ![p] = "az_log_w"]
    /\ UNCHANGED <<sims, log_w, sim_status, log_lambdas, lockHolder, locals, ret,
                   claimed, handed, invalid>>
    /\ UNCHANGED <<root, legacy>>

\* Store._append_z, line 224: log_w.append(log_w)
AzLogW(p) ==
    /\ pc[p] = "az_log_w"
    /\ log_w' = log_w \o log_w_new[p]
    /\ pc' = [pc EXCEPT ![p] = "az_status"]
    /\ UNCHANGED <<pars, sims, sim_status, log_lambdas, lockHolder, locals, ret, history>>
    /\ UNCHANGED <<root, legacy>>

\* Store._append_z, lines 229-230: register the new rows as PENDING.
AzStatus(p) ==
    /\ pc[p] = "az_status"
    /\ sim_status' = sim_status \o [j \in 1..Len(z_new[p]) |-> PENDING]
    /\ pc' = [pc EXCEPT ![p] = "ll_len"]
    /\ UNCHANGED <<pars, sims, log_w, log_lambdas, lockHolder, locals, ret, history>>
    /\ UNCHANGED <<root, legacy>>

\* A ledger length that is raised by two.
LedgerLenPlusTwo(p) ==
    /\ pc[p] = "ll_len"
    /\ shape' = [shape EXCEPT ![p] = Len(log_lambdas) + 2]
    /\ pc' = [pc EXCEPT ![p] = "ll_resize"]
    /\ UNCHANGED <<store, lockHolder, args, z_new, log_w_new, key,
                   idx, res, pos, ret, history>>
    /\ UNCHANGED <<root, legacy>>

\* Store.sample, line 270: len(self.log_lambdas) + 1
LedgerLen(p) ==
    /\ pc[p] = "ll_len"
    /\ shape' = [shape EXCEPT ![p] = Len(log_lambdas) + 1]
    /\ pc' = [pc EXCEPT ![p] = "ll_resize"]
    /\ UNCHANGED <<store, lockHolder, args, z_new, log_w_new, key,
                   idx, res, pos, ret, history>>
    /\ UNCHANGED <<root, legacy>>

\* Store.sample, line 270: self.log_lambdas.resize(...)
LedgerResize(p) ==
    /\ pc[p] = "ll_resize"
    /\ log_lambdas' = Resize(log_lambdas, shape[p], NoRec)
    /\ pc' = [pc EXCEPT ![p] = "ll_write"]
    /\ UNCHANGED <<pars, sims, log_w, sim_status, lockHolder, locals, ret, history>>
    /\ UNCHANGED <<root, legacy>>

\* Store.sample, line 271: self.log_lambdas[-1] = dict(pdf=..., N=N)
LedgerWrite(p) ==
    /\ pc[p] = "ll_write"
    /\ log_lambdas' = [log_lambdas EXCEPT ![Len(log_lambdas)] =
                          [pdf |-> StateDict(args[p].pdf), N |-> args[p].N]]
    /\ pc' = [pc EXCEPT ![p] = "select"]
    /\ UNCHANGED <<pars, sims, log_w, sim_status, lockHolder, locals, ret, history>>
    /\ UNCHANGED <<root, legacy>>

\* log_w_store < log_lambda_target as numpy compares two vectors: element
\* by element when the lengths agree, a vector of length 1 against every
\* element of the other, and otherwise not at all.
CanBroadcast(w, t) == Len(w) = Len(t) \/ Len(w) = 1 \/ Len(t) = 1

AcceptStored(w, t) ==
    IF Len(w) = Len(t) THEN [i \in 1..Len(w) |-> w[i] < t[i]]
    ELSE IF Len(w) = 1 THEN [i \in 1..Len(t) |-> w[1] < t[i]]
    ELSE [i \in 1..Len(w) |-> w[i] < t[1]]

\* np.array(range(len(accept_stored)))[accept_stored]
Indices(accept_stored) ==
    Masked([i \in 1..Len(accept_stored) |-> i], accept_stored)

\* Store.sample, lines 274-284: the selection pass over the rows as they
\* are now, and the return.
Select(p) ==
    /\ pc[p] = "select"
    /\ LET target == LogLambdaTarget(args[p].pdf, args[p].N, pars)
       IN IF CanBroadcast(log_w, target)
          THEN Return(p, [kind |-> "returned", op |-> "sample",
                          N |-> args[p].N, pdf |-> args[p].pdf,
                          indices |-> Indices(AcceptStored(log_w, target))])
          ELSE Raise(p, "ValueError")
    /\ appended' = [appended EXCEPT ![p] = {}]
    /\ UNCHANGED <<store, lockHolder, claimed, handed, invalid>>
    /\ UNCHANGED <<root, legacy>>

Sample(p) ==
    \/ SamplePropose(p)
    \/ AzShape(p)
    \/ AzResize(p)
    \/ AzPars(p)
    \/ AzLogW(p)
    \/ AzStatus(p)
    \/ LedgerLen(p)
    \/ LedgerResize(p)
    \/ LedgerWrite(p)
    \/ Select(p)

\* -------------------------------------------------------------- simulate
\* The index arguments a caller may pass: None (all rows) or a list of rows,
\* which may name a row the store does not have.
IndexArgs ==
    {[all |-> TRUE, rows |-> {}]} \cup {[all |-> FALSE, rows |-> S] : S \in SUBSET Rows \ {{}}}

\* A status read that ignores the index argument.
TargetedAll(a, status) == 1..Len(status)

\* Store.get_simulation_status: the rows whose status is read.
Targeted(a, status) == IF a.all THEN 1..Len(status) ELSE a.rows

\* oindex with a row the array does not have raises.
InBounds(a, status) == \A i \in Targeted(a, status) : i <= Len(status)

\* A selection that forgets the PENDING filter.
GetIndicesUnfiltered(a, status) == Sorted(Targeted(a, status))

\* Store._get_indices_to_simulate: the targeted rows that are PENDING.
GetIndicesToSimulate(a, status) ==
    Sorted({i \in Targeted(a, status) : status[i] = PENDING})

\* Store._set_simulation_status, lines 311-313: refuse when a row already has
\* the status.
AlreadyHas(status, rows, st) == \E i \in rows : status[i] = st

\* A status write that reaches every row of the array.
SetStatusEverywhere(status, rows, st) == [i \in 1..Len(status) |-> st]

\* Store._set_simulation_status, line 314.
SetSimulationStatus(status, rows, st) ==
    [i \in 1..Len(status) |-> IF i \in rows THEN st ELSE status[i]]

\* A lock that never blocks.
LockNeverBlocks(holder) == TRUE

\* Store.lock: blocks until cache.lock is free.
LockFree(holder) == holder = NoProc

\* Store.simulate, line 391.
SimLock(p) ==
    /\ pc[p] = "idle"
    /\ LockFree(lockHolder)
    /\ lockHolder' = p
    /\ \E a \in IndexArgs :
         args' = [args EXCEPT ![p] = [op |-> "simulate", all |-> a.all, rows |-> a.rows]]
    /\ pc' = [pc EXCEPT ![p] = "sim_idx"]
    /\ ret' = [ret EXCEPT ![p] = [kind |-> "none"]]
    /\ UNCHANGED <<store, z_new, log_w_new, shape, key, idx, res, pos, history>>
    /\ UNCHANGED <<root, legacy>>

\* Store.simulate, line 392, and the reads of line 393 (lines 311-313): the
\* PENDING rows among the targeted ones, and the check that none of them is
\* RUNNING already.  An error here leaves the call with the lock held.
SimIdx(p) ==
    /\ pc[p] = "sim_idx"
    /\ IF ~InBounds(args[p], sim_status)
       THEN Raise(p, "IndexError")
       ELSE LET rows == GetIndicesToSimulate(args[p], sim_status)
            IN IF AlreadyHas(sim_status, Range(rows), RUNNING)
               THEN Raise(p, "ValueError")
               ELSE /\ idx' = [idx EXCEPT ![p] = rows]
                    /\ pc' = [pc EXCEPT ![p] = "sim_set"]
                    /\ UNCHANGED <<args, z_new, log_w_new, shape, key, res, pos, ret>>
    /\ UNCHANGED <<store, lockHolder, history>>
    /\ UNCHANGED <<root, legacy>>

\* An unlock that leaves the lock with its holder.
NoUnlock(holder, p) == holder

\* Store.unlock.
Unlock(holder, p) == IF holder = p THEN NoProc ELSE holder

\* Store.simulate, line 393 (line 314) to line 404: the rows become RUNNING,
\* the lock is released, and the call returns at once when the store has no
\* simulator or there is no row to run.
SimSet(p) ==
    /\ pc[p] = "sim_set"
    /\ sim_status' = SetSimulationStatus(sim_status, Range(idx[p]), RUNNING)
    /\ claimed' = [i \in Rows |-> IF i \in Range(idx[p]) THEN claimed[i] + 1 ELSE claimed[i]]
    /\ lockHolder' = Unlock(lockHolder, p)
    /\ \E simulator \in BOOLEAN :
         IF ~simulator \/ Len(idx[p]) = 0
         THEN Return(p, [kind |-> "returned", op |-> "simulate"])
         ELSE /\ pc' = [pc EXCEPT ![p] = "sim_run"]
              /\ UNCHANGED <<locals, ret>>
    /\ UNCHANGED <<pars, sims, log_w, log_lambdas, handed, invalid, appended>>
    /\ UNCHANGED <<root, legacy>>

\* Store.simulate, lines 406-408: the batch goes to simulator.run, which
\* answers with the outputs and a validity code (0: valid) for every row.
SimRun(p) ==
    /\ pc[p] = "sim_run"
    /\ \E validity \in [1..Len(idx[p]) -> {0, 1}] :
         /\ res' = [res EXCEPT ![p] =
                      [j \in 1..Len(idx[p]) |->
                          [x |-> [k \in Range(SimKeys) |-> SimOut(pars[idx[p][j]], k)],
                           v |-> validity[j]]]]
         /\ invalid' = invalid \cup {idx[p][j] : j \in {n \in 1..Len(idx[p]) : validity[n] # 0}}
    /\ handed' = [i \in Rows |-> IF i \in Range(idx[p]) THEN handed[i] + 1 ELSE handed[i]]
    /\ pos' = [pos EXCEPT ![p] = 1]
    /\ key' = [key EXCEPT ![p] = 1]
    /\ pc' = [pc EXCEPT ![p] = "sim_store"]
    /\ UNCHANGED <<store, lockHolder, args, z_new, log_w_new, shape,
                   idx, ret, claimed, appended>>
    /\ UNCHANGED <<root, legacy>>

\* Outputs written into the parameter array instead of the output array.
SimStoreIntoPars(p) ==
    /\ pc[p] = "sim_store"
    /\ LET i == idx[p][pos[p]]
           r == res[p][pos[p]]
           k == SimKeys[key[p]]
       IN /\ pars' = [pars EXCEPT ![i] = r.x[k]]
          /\ key' = [key EXCEPT ![p] = 1]
          /\ pc' = [pc EXCEPT ![p] = "sim_finish"]
    /\ UNCHANGED <<sims, log_w, sim_status, log_lambdas, lockHolder, history,
                   args, z_new, log_w_new, shape, idx, res, pos, ret>>
    /\ UNCHANGED <<root, legacy>>

\* Store.simulate, lines 410-414, and Store._add_sim, lines 344-345: a valid
\* row's outputs are written name by name; for any other row the call
\* reaches self._failed_sim, which the class does not define.
SimStore(p) ==
    /\ pc[p] = "sim_store"
    /\ LET i == idx[p][pos[p]]
           r == res[p][pos[p]]
           k == SimKeys[key[p]]
       IN IF r.v # 0
          THEN /\ Raise(p, "AttributeError")
               /\ UNCHANGED sims
          ELSE IF i > Len(sims[k])
          THEN /\ Raise(p, "IndexError")
               /\ UNCHANGED sims
          ELSE /\ sims' = [sims EXCEPT ![k][i] = r.x[k]]
               /\ IF key[p] < Len(SimKeys)
                  THEN /\ key' = [key EXCEPT ![p] = @ + 1]
                       /\ UNCHANGED pc
                  ELSE /\ key' = [key EXCEPT ![p] = 1]
                       /\ pc' = [pc EXCEPT ![p] = "sim_finish"]
               /\ UNCHANGED <<args, z_new, log_w_new, shape, idx, res,
                              pos, ret>>
    /\ UNCHANGED <<pars, log_w, sim_status, log_lambdas, lockHolder, history>>
    /\ UNCHANGED <<root, legacy>>

\* Store._add_sim, line 346: the row becomes FINISHED; then the next row of
\* the batch, or the wait.
SimFinish(p) ==
    /\ pc[p] = "sim_finish"
    /\ LET i == idx[p][pos[p]]
       IN IF AlreadyHas(sim_status, {i}, FINISHED)
          THEN /\ Raise(p, "ValueError")
               /\ UNCHANGED sim_status
          ELSE /\ sim_status' = SetSimulationStatus(sim_status, {i}, FINISHED)
               /\ pos' = [pos EXCEPT ![p] = @ + 1]
               /\ pc' = [pc EXCEPT ![p] = IF pos[p] < Len(idx[p]) THEN "sim_store"
                                          ELSE "sim_wait"]
               /\ UNCHANGED <<args, z_new, log_w_new, shape, key, idx,
                              res, ret>>
    /\ UNCHANGED <<pars, sims, log_w, log_lambdas, lockHolder, history>>
    /\ UNCHANGED <<root, legacy>>

\* A wait that gives up.
WaitGivesUp(a, status) == TRUE

\* Store.wait_for_simulations: poll until every targeted row reads FINISHED.
AllFinished(a, status) == \A i \in Targeted(a, status) : status[i] = FINISHED

\* Store.simulate, line 417.
SimWait(p) ==
    /\ pc[p] = "sim_wait"
    /\ AllFinished(args[p], sim_status)
    /\ Return(p, [kind |-> "returned", op |-> "simulate"])
    /\ UNCHANGED <<store, lockHolder, history>>
    /\ UNCHANGED <<root, legacy>>

Simulate(p) ==
    \/ SimLock(p)
    \/ SimIdx(p)
    \/ SimSet(p)
    \/ SimRun(p)
    \/ SimStore(p)
    \/ SimFinish(p)
    \/ SimWait(p)

\* --------------------------------------------------------------- queries
\* Store.requires_sim, line 332: _get_indices_to_simulate(indices).size > 0
RequiresSimValue(a, status) == Len(GetIndicesToSimulate(a, status)) > 0

\* Store.requires_sim: is any targeted row PENDING?
RequiresSim(p) ==
    /\ pc[p] = "idle"
    /\ \E a \in IndexArgs :
         IF InBounds(a, sim_status)
         THEN Return(p, [kind |-> "returned", op |-> "requires_sim", all |-> a.all,
                         rows |-> a.rows,
                         value |-> RequiresSimValue(a, sim_status)])
         ELSE Return(p, [kind |-> "raised", op |-> "requires_sim", exc |-> "IndexError"])
    /\ UNCHANGED <<store, lockHolder, history>>
    /\ UNCHANGED <<root, legacy>>

\* Store.any_failed: reads self.f, the failed_simulation array, which
\* _update never binds (lines 187 and 334-341).
AnyFailed(p) ==
    /\ pc[p] = "idle"
    /\ Return(p, [kind |-> "raised", op |-> "any_failed", exc |-> "AttributeError"])
    /\ UNCHANGED <<store, lockHolder, history>>
    /\ UNCHANGED <<root, legacy>>

Query(p) ==
    \/ RequiresSim(p)
    \/ AnyFailed(p)

Next == \E p \in Procs : Sample(p) \/ Simulate(p)

Spec == Init /\ [][Next]_vars

\* The same processes, one of which also queries the store between its
\* calls.  A query changes nothing in the store and the processes are
\* otherwise alike, so one querying process sees every result a query can have.
Querier == "p2"

NextQuery == (\E p \in Procs : Sample(p) \/ Simulate(p)) \/ Query(Querier)

SpecQuery == Init /\ [][NextQuery]_vars

\* ----------------------------------------------------------------- claims
InSimulate(p) == pc[p] \in {"sim_idx", "sim_set", "sim_run", "sim_store", "sim_finish", "sim_wait"}

Quiescent == \A p \in Procs : pc[p] = "idle"

\* The envelope of the records written so far.
RECURSIVE Written(_)
Written(ledger) ==
    IF ledger = <<>> THEN <<>>
    ELSE IF Head(ledger) = NoRec THEN Written(Tail(ledger))
         ELSE <<Head(ledger)>> \o Written(Tail(ledger))

Envelope(ledger, z) == log_lambda(Written(ledger), z)

\* C1: no row is claimed by two simulate calls: a row is set RUNNING at most
\* once, is given to simulator.run at most once, and the batches of two
\* processes never share a row.
C1_NoDoubleClaim ==
    /\ \A i \in Rows : claimed[i] <= 1 /\ handed[i] <= 1
    /\ \A p, q \in Procs : p # q => Range(idx[p]) \cap Range(idx[q]) = {}

\* Two simulate calls overlap in time and in their targets: q has passed the
\* selection while a row it targets is in p's running batch.
C1_Witness ==
    \E p, q \in Procs :
        /\ p # q
        /\ pc[p] \in {"sim_run", "sim_store", "sim_finish"}
        /\ pc[q] = "sim_set"
        /\ \E i \in Range(idx[p]) : i \in Targeted(args[q], sim_status)

\* C2: in every step each row's status stays or moves PENDING -> RUNNING or
\* RUNNING -> FINISHED / FAILED, the status array never gets shorter, and a new
\* row starts PENDING.
C2_StatusForward ==
    [][/\ Len(sim_status') >= Len(sim_status)
       /\ \A i \in 1..Len(sim_status') :
            IF i <= Len(sim_status)
            THEN \/ sim_status'[i] = sim_status[i]
                 \/ sim_status[i] = PENDING /\ sim_status'[i] = RUNNING
                 \/ sim_status[i] = RUNNING /\ sim_status'[i] \in {FINISHED, FAILED}
            ELSE sim_status'[i] = PENDING]_vars

\* A row has gone all the way to FINISHED while another is still PENDING.
C2_Witness ==
    /\ \E i \in 1..Len(sim_status) : sim_status[i] = FINISHED /\ handed[i] = 1
    /\ \E i \in 1..Len(sim_status) : sim_status[i] = PENDING

\* C3: the parameter array, every output array, the log-weights and the
\* statuses have the same length in every reachable state.
C3_SameLength ==
    /\ Len(log_w) = Len(pars)
    /\ Len(sim_status) = Len(pars)
    /\ \A k \in Range(SimKeys) : Len(sims[k]) = Len(pars)

\* C4: a process that is about to append rows, to append to the ledger or to
\* claim rows holds the process lock.
C4_MutationUnderLock ==
    \A p \in Procs :
        pc[p] \in {"az_resize", "az_pars", "az_log_w", "az_status", "ll_resize",
                   "ll_write", "sim_set"}
            => lockHolder = p

\* C5: a process that is in no call does not hold the lock.
C5_LockReleased == \A p \in Procs : pc[p] = "idle" => lockHolder # p

\* C6: between calls, every stored row's log-weight is at most the envelope
\* of the ledger at the row's parameters.
C6_WeightBelowEnvelope ==
    (Quiescent /\ Readable(log_lambdas)) =>
        \A i \in 1..Len(pars) :
            i <= Len(log_w) => log_w[i] <= log_lambda(log_lambdas, pars[i])

\* C7: no step lowers the envelope at any point.
C7_EnvelopeMonotone ==
    [][\A z \in Z : Envelope(log_lambdas', z) >= Envelope(log_lambdas, z)]_vars

\* C8: what sample returns is exactly the set of rows i of the store with
\* log_w[i] < log N + log_pdf(z_i).
C8_ExactSelection ==
    [][\A p \in Procs :
          (pc[p] = "select" /\ pc'[p] = "idle" /\ ret'[p].kind = "returned") =>
              Range(ret'[p].indices) =
                  {i \in 1..Len(pars') :
                      /\ i <= Len(log_w')
                      /\ log_w'[i] < Add(LogProb(args[p].pdf, pars'[i]), Log(args[p].N))}]_vars

\* C9: when a simulate call that ran a batch with exactly one failed row
\* ends, the failed row is FAILED and every other row of the batch is
\* FINISHED with its outputs stored.
C9_PartialFailure ==
    [][\A p \in Procs :
          (/\ InSimulate(p) /\ pc'[p] = "idle"
           /\ Len(res[p]) = Len(idx[p]) /\ Len(idx[p]) >= 2
           /\ Cardinality({j \in 1..Len(res[p]) : res[p][j].v # 0}) = 1) =>
              \A j \in 1..Len(idx[p]) :
                  IF res[p][j].v # 0
                  THEN sim_status'[idx[p][j]] = FAILED
                  ELSE /\ sim_status'[idx[p][j]] = FINISHED
                       /\ \A k \in Range(SimKeys) :
                            /\ idx[p][j] <= Len(sims'[k])
                            /\ sims'[k][idx[p][j]] = res[p][j].x[k]]_vars

\* C10: once a simulate call with a failed row has ended, requires_sim is
\* true exactly when a targeted row is PENDING (the failed row does not
\* count) and any_failed returns true.
C10_FailureReported ==
    [][\A p \in Procs :
          (/\ invalid # {}
           /\ \A q \in Procs : Range(idx[q]) \cap invalid = {}
           /\ pc[p] = "idle" /\ pc'[p] = "idle"
           /\ ret'[p] # ret[p] /\ ret'[p].kind # "none") =>
              /\ ret'[p].op = "requires_sim" /\ ret'[p].kind = "returned" =>
                    ret'[p].value =
                        (\E i \in Targeted(ret'[p], sim_status) : sim_status[i] = PENDING)
              /\ ret'[p].op = "any_failed" =>
                    ret'[p].kind = "returned" /\ ret'[p].value = TRUE]_vars

\* The rows a call with index argument a targets when the store has n rows.
TargetRows(a, n) == IF a.all THEN 1..n ELSE a.rows

Terminal(st) == st = FINISHED \/ st = FAILED

\* C11: when a simulate call returns normally, every row it targeted has a
\* terminal status, whoever claimed it.
C11_ReturnsWhenTerminal ==
    [][\A p \in Procs :
          (InSimulate(p) /\ pc'[p] = "idle" /\ ret'[p].kind = "returned") =>
              \A i \in TargetRows(args[p], Len(sim_status)) :
                  i <= Len(sim_status') /\ Terminal(sim_status'[i])]_vars

\* A process that is in no call holds the lock, so that a peer's lock() waits
\* for ever.
LockLeaked(p) == \E q \in Procs \ {p} : lockHolder = q /\ pc[q] = "idle"

\* C12: when no row is PENDING, simulate() does not block, and the call
\* finds nothing to claim, hands nothing to the simulator, changes nothing
\* in the store and returns at its next step.
C12_NoPendingNoOp ==
    [][\A p \in Procs :
          /\ (pc[p] = "idle" /\ \A i \in 1..Len(sim_status) : sim_status[i] # PENDING)
                => ~LockLeaked(p)
          /\ (pc[p] = "sim_set" /\ idx[p] = <<>> /\ pc'[p] # pc[p]) =>
                /\ store' = store
                /\ handed' = handed
                /\ pc'[p] = "idle" /\ ret'[p].kind = "returned"]_vars

\* C13: in every state, requires_sim called with rows the store has (or
\* with none named, for all rows) answers true exactly when one of those
\* rows is PENDING; on the empty store it answers false.
C13_RequiresSimIffPending ==
    \A a \in IndexArgs :
        (\A i \in TargetRows(a, Len(sim_status)) : i <= Len(sim_status)) =>
            RequiresSimValue(a, sim_status) =
                (\E i \in TargetRows(a, Len(sim_status)) : sim_status[i] = PENDING)

\* requires_sim has answered false for named rows of which one is RUNNING,
\* while another row of the store is PENDING.
C13_Witness ==
    /\ ret[Querier].kind = "returned" /\ ret[Querier].op = "requires_sim"
    /\ ~ret[Querier].all /\ ~ret[Querier].value
    /\ \E i \in ret[Querier].rows : sim_status[i] = RUNNING
    /\ \E i \in 1..Len(sim_status) : sim_status[i] = PENDING

\* ------------------------------------------- _set_simulation_status alone
\* A store holding n rows in any statuses: the rows came from one sample
\* call on the empty store, and FINISHED rows hold their outputs.
InitClaim ==
    /\ \E n \in 0..MaxRows :
         /\ sim_status \in [1..n -> SimulationStatus]
         /\ pars = [i \in 1..n |-> 1]
         /\ log_w = [i \in 1..n |-> 0]
         /\ log_lambdas = IF n = 0 THEN <<>> ELSE <<[pdf |-> StateDict("wide"), N |-> 2]>>
    /\ sims = [k \in Range(SimKeys) |->
                 [i \in 1..Len(sim_status) |->
                     IF sim_status[i] = FINISHED THEN SimOut(pars[i], k) ELSE SimFill]]
    /\ lockHolder = NoProc
    /\ pc = [p \in Procs |-> "idle"]
    /\ args = [p \in Procs |-> [op |-> "none"]]
    /\ z_new = [p \in Procs |-> <<>>]
    /\ log_w_new = [p \in Procs |-> <<>>]
    /\ shape = [p \in Procs |-> 0]
    /\ key = [p \in Procs |-> 1]
    /\ idx = [p \in Procs |-> <<>>]
    /\ res = [p \in Procs |-> <<>>]
    /\ pos = [p \in Procs |-> 1]
    /\ ret = [p \in Procs |-> [kind |-> "none"]]
    /\ claimed = [i \in Rows |-> IF i <= Len(sim_status) /\ sim_status[i] # PENDING THEN 1 ELSE 0]
    /\ handed = [i \in Rows |-> IF i <= Len(sim_status) /\ sim_status[i] = FINISHED THEN 1 ELSE 0]
    /\ invalid = {}
    /\ appended = [p \in Procs |-> {}]
    /\ root = Layout
    /\ LegacyInit

\* Store._set_simulation_status(indices, SimulationStatus.RUNNING) called on
\* rows of the store: refused when one of them is RUNNING already, otherwise
\* every one of them is written.
ClaimRows(p) ==
    /\ pc[p] = "idle"
    /\ \E rows \in SUBSET (1..Len(sim_status)) \ {{}} :
         IF AlreadyHas(sim_status, rows, RUNNING)
         THEN /\ Return(p, [kind |-> "raised", op |-> "_set_simulation_status",
                            rows |-> rows, exc |-> "ValueError"])
              /\ UNCHANGED sim_status
         ELSE /\ Return(p, [kind |-> "returned", op |-> "_set_simulation_status",
                            rows |-> rows])
              /\ sim_status' = SetSimulationStatus(sim_status, rows, RUNNING)
    /\ UNCHANGED <<pars, sims, log_w, log_lambdas, lockHolder, history>>
    /\ UNCHANGED <<root, legacy>>

NextClaim == \E p \in Procs : ClaimRows(p)

SpecClaim == InitClaim /\ [][NextClaim]_vars

\* C14: a claim on rows of which one is not PENDING raises and changes no
\* status.
C14_ClaimNeedsPending ==
    [][\A p \in Procs :
          (/\ ret'[p] # ret[p]
           /\ ret'[p].op = "_set_simulation_status"
           /\ \E i \in ret'[p].rows : sim_status[i] # PENDING) =>
              (ret'[p].kind = "raised" /\ sim_status' = sim_status)]_vars

\* C15: sample returns no row at which the submitted target intensity is
\* above the envelope of the ledger; such a call raises instead.
C15_EnvelopeViolationRaised ==
    [][\A p \in Procs :
          (pc[p] = "select" /\ pc'[p] = "idle" /\ ret'[p].kind = "returned") =>
              \A i \in Range(ret'[p].indices) :
                  Add(LogProb(args[p].pdf, pars[i]), Log(args[p].N))
                      <= Envelope(log_lambdas, pars[i])]_vars

\* The managed arrays have one length.
LengthsAgree ==
    /\ Len(log_w) = Len(pars)
    /\ Len(sim_status) = Len(pars)
    /\ \A k \in Range(SimKeys) : Len(sims[k]) = Len(pars)

\* C16: a row append that starts while the managed arrays differ in length
\* raises and extends no array.
C16_DesyncRefused ==
    [][\A p \in Procs :
          (pc[p] = "az_shape" /\ key[p] = 1 /\ pc'[p] # pc[p] /\ ~LengthsAgree) =>
              /\ pc'[p] = "idle" /\ ret'[p].kind = "raised"
              /\ store' = store]_vars

\* C17: no step removes a row, and no step changes the parameters or the
\* log-weight of a row that has them.
C17_OnlyGrows ==
    [][/\ Len(pars') >= Len(pars)
       /\ Len(log_w') >= Len(log_w)
       /\ \A i \in 1..Len(pars) : pars'[i] = pars[i]
       /\ \A i \in 1..Len(log_w) : log_w'[i] = log_w[i]]_vars

\* Two rows with different parameters, the first of them simulated and
\* holding its outputs.
C17_Witness ==
    /\ Len(pars) = 2 /\ Len(log_w) = 2 /\ pars[1] # pars[2]
    /\ Len(sim_status) = 2 /\ sim_status[1] = FINISHED
    /\ \A k \in Range(SimKeys) : Len(sims[k]) >= 1 /\ sims[k][1] = SimOut(pars[1], k)

\* C18: a step of a simulate call or of a query leaves the parameters, the
\* log-weights and the ledger, hence the number of rows, as they are.
C18_OnlySampleGrows ==
    [][\A p \in Procs :
          (\/ InSimulate(p) /\ (pc'[p] # pc[p] \/ key'[p] # key[p])
           \/ pc[p] = "idle" /\ pc'[p] = "sim_idx"
           \/ pc[p] = "idle" /\ pc'[p] = "idle" /\ ret'[p] # ret[p]) =>
              UNCHANGED <<pars, log_w, log_lambdas>>]_vars

\* A row has been simulated to the end and requires_sim has answered for a
\* store that has rows and a ledger record.
C18_Witness ==
    /\ ret[Querier].kind = "returned" /\ ret[Querier].op = "requires_sim"
    /\ \E i \in 1..Len(sim_status) : sim_status[i] = FINISHED /\ handed[i] = 1
    /\ Len(log_lambdas) >= 1 /\ Len(pars) >= 1

\* C19: no step shortens the ledger, and no step removes or changes a record
\* that has been written.
C19_LedgerAppendOnly ==
    [][/\ Len(log_lambdas') >= Len(log_lambdas)
       /\ \A k \in 1..Len(log_lambdas) :
            log_lambdas[k] # NoRec =>
                (k <= Len(log_lambdas') /\ log_lambdas'[k] = log_lambdas[k])]_vars

InSample(p) ==
    pc[p] \in {"az_shape", "az_resize", "az_pars", "az_log_w", "az_status", "ll_len",
               "ll_resize", "ll_write", "select"}

\* C20: the ledger write of a sample call that accepted a candidate adds its
\* (pdf, N) record to the records written so far, and no other step of a
\* sample call, with or without accepted candidates, changes those records.
C20_OneRecordPerGrowth ==
    [][\A p \in Procs :
          /\ (pc[p] = "ll_write" /\ pc'[p] = "select") =>
                /\ Len(z_new[p]) > 0
                /\ Written(log_lambdas') =
                       Append(Written(log_lambdas),
                              [pdf |-> StateDict(args[p].pdf), N |-> args[p].N])
          /\ (\/ InSample(p) /\ pc[p] # "ll_write" /\ (pc'[p] # pc[p] \/ key'[p] # key[p])
              \/ pc[p] = "idle" /\ pc'[p] \in {"az_shape", "select"}) =>
                Written(log_lambdas') = Written(log_lambdas)]_vars

\* -------------------------------------------------------- log_lambda alone
\* The counts N a caller may pass.
LedgerNs == {1, 2, 4}

\* A store as concurrent sample calls that all proposed on the empty store
\* leave it: one record per call, in any order, and for each record the row
\* at z = 1 its call accepted, still PENDING.
InitLedger ==
    /\ \E n \in 0..MaxRows :
         /\ log_lambdas \in [1..n -> [pdf : {StateDict(f) : f \in Pdfs}, N : LedgerNs]]
         /\ pars = [i \in 1..n |-> 1]
    /\ log_w = [i \in 1..Len(pars) |->
                   Add(-1, Add(LogProb(FromStateDict(log_lambdas[i].pdf), 1),
                               Log(log_lambdas[i].N)))]
    /\ sim_status = [i \in 1..Len(pars) |-> PENDING]
    /\ sims = [k \in Range(SimKeys) |-> [i \in 1..Len(pars) |-> SimFill]]
    /\ lockHolder = NoProc
    /\ pc = [p \in Procs |-> "idle"]
    /\ args = [p \in Procs |-> [op |-> "none"]]
    /\ z_new = [p \in Procs |-> <<>>]
    /\ log_w_new = [p \in Procs |-> <<>>]
    /\ shape = [p \in Procs |-> 0]
    /\ key = [p \in Procs |-> 1]
    /\ idx = [p \in Procs |-> <<>>]
    /\ res = [p \in Procs |-> <<>>]
    /\ pos = [p \in Procs |-> 1]
    /\ ret = [p \in Procs |-> [kind |-> "none"]]
    /\ claimed = [i \in Rows |-> 0]
    /\ handed = [i \in Rows |-> 0]
    /\ invalid = {}
    /\ appended = [p \in Procs |-> {}]
    /\ root = Layout
    /\ LegacyInit

\* Store.log_lambda called at one point.
LogLambdaCall(p) ==
    /\ pc[p] = "idle"
    /\ \E z \in Z :
         Return(p, [kind |-> "returned", op |-> "log_lambda", z |-> z,
                    value |-> log_lambda(log_lambdas, z)])
    /\ UNCHANGED <<store, lockHolder, history>>
    /\ UNCHANGED <<root, legacy>>

NextLedger == \E p \in Procs : LogLambdaCall(p)

SpecLedger == InitLedger /\ [][NextLedger]_vars

\* The largest of a non-empty set of numbers.
MaxOf(S) == CHOOSE m \in S : \A x \in S : m >= x

C22_GrowthStoresAccepted ==
    [][\A p \in Procs :
          /\ (pc[p] = "idle" /\ pc'[p] \in {"az_shape", "select"}) =>
                /\ (pc'[p] = "az_shape") = (Len(z_new'[p]) > 0)
                /\ \A j \in 1..Len(z_new'[p]) :
                      log_w_new'[p][j] > log_lambda(log_lambdas, z_new'[p][j])
          /\ (pc[p] = "az_pars" /\ pc'[p] # pc[p]) => pars' = pars \o z_new[p]
          /\ (pc[p] = "az_log_w" /\ pc'[p] # pc[p]) =>
                /\ log_w' = log_w \o log_w_new[p]
                /\ \A j \in 1..Len(z_new[p]) :
                      /\ Len(log_w) + j <= Len(pars)
                      /\ pars[Len(log_w) + j] = z_new[p][j]
          /\ (pc[p] = "az_status" /\ pc'[p] # pc[p]) =>
                \A j \in 1..Len(z_new[p]) :
                    /\ sim_status'[Len(sim_status) + j] = PENDING
                    /\ Len(sim_status) + j <= Len(pars)
                    /\ pars[Len(sim_status) + j] = z_new[p][j]
                    /\ Len(sim_status) + j <= Len(log_w)
                    /\ log_w[Len(sim_status) + j] = log_w_new[p][j]]_vars

\* ------------------------------------------------------- one process alone
\* A single process calling sample and simulate one after the other.
Caller == "p1"

NextSeq == Sample(Caller) \/ Simulate(Caller)

SpecSeq == Init /\ [][NextSeq]_vars

\* The record sample(N, pdf) writes is the last one of the ledger.
LastRecordIs(pdf, N) ==
    /\ Len(log_lambdas) > 0
    /\ log_lambdas[Len(log_lambdas)] = [pdf |-> StateDict(pdf), N |-> N]

\* C23: when a process whose last call was sample(N, pdf), with that call's
\* record the last of the ledger, calls sample(N, pdf) again at once, no
\* candidate is accepted whatever is proposed, the call changes nothing in
\* the store, and it returns the index set the first call returned.
C23_RepeatAddsNothing ==
    [][\A p \in Procs :
          /\ (/\ pc[p] = "idle" /\ pc'[p] \in {"az_shape", "select"}
              /\ ret[p].kind = "returned" /\ ret[p].op = "sample"
              /\ args'[p].N = ret[p].N /\ args'[p].pdf = ret[p].pdf
              /\ LastRecordIs(ret[p].pdf, ret[p].N)) =>
                /\ pc'[p] = "select" /\ z_new'[p] = <<>>
                /\ Indices(AcceptStored(log_w, LogLambdaTarget(ret[p].pdf, ret[p].N, pars)))
                       = ret[p].indices
          /\ (/\ pc[p] = "select" /\ pc'[p] # pc[p] /\ z_new[p] = <<>>) =>
                /\ store' = store
                /\ ret'[p].kind = "returned"
                /\ ret'[p].indices =
                       Indices(AcceptStored(log_w, LogLambdaTarget(args[p].pdf, args[p].N, pars)))]_vars

\* A later sample(N, pdf) call on a store that an earlier sample(N, pdf)
\* call grew is at its selection pass, having accepted nothing.
C23_Witness ==
    /\ pc[Caller] = "select" /\ z_new[Caller] = <<>>
    /\ LastRecordIs(args[Caller].pdf, args[Caller].N)
    /\ Len(log_lambdas) = 1 /\ Len(pars) >= 1

\* ------------------------------------------------------------ construction
\* A path of the root that is no part of the layout.
Junk == "junk"

\* The layout as _setup_new_store has built it after 0..5 of its calls.
SetupOrder ==
    <<"samples/pars", "samples/sims", "samples/log_w", "metadata/log_lambdas",
      "samples/simulation_status">>

\* root.keys(): the top-level names of the paths present.
Keys(paths) ==
    {k \in {"samples", "metadata", Junk} :
        \E path \in paths :
            \/ path = k
            \/ /\ Len(path) > Len(k)
               /\ SubSeq(path, 1, Len(k) + 1) = k \o "/"}

\* Roots a store can be opened on: the layout at any point of its creation,
\* with or without a foreign key; a complete layout holds 0..MaxRows rows.
InitOpen ==
    /\ \E made \in 0..Len(SetupOrder), foreign \in SUBSET {Junk} :
         root = {SetupOrder[j] : j \in 1..made} \cup foreign
    /\ \E n \in 0..MaxRows :
         /\ n > 0 => Layout \subseteq root
         /\ sim_status \in [1..n -> SimulationStatus]
         /\ pars = [i \in 1..n |-> 1]
         /\ log_w = [i \in 1..n |-> 0]
         /\ log_lambdas = IF n = 0 THEN <<>> ELSE <<[pdf |-> StateDict("wide"), N |-> 2]>>
    /\ sims = [k \in Range(SimKeys) |->
                 [i \in 1..Len(sim_status) |->
                     IF sim_status[i] = FINISHED THEN SimOut(pars[i], k) ELSE SimFill]]
    /\ lockHolder = NoProc
    /\ pc = [p \in Procs |-> "idle"]
    /\ args = [p \in Procs |-> [op |-> "none"]]
    /\ z_new = [p \in Procs |-> <<>>]
    /\ log_w_new = [p \in Procs |-> <<>>]
    /\ shape = [p \in Procs |-> 0]
    /\ key = [p \in Procs |-> 1]
    /\ idx = [p \in Procs |-> <<>>]
    /\ res = [p \in Procs |-> <<>>]
    /\ pos = [p \in Procs |-> 1]
    /\ ret = [p \in Procs |-> [kind |-> "none"]]
    /\ claimed = [i \in Rows |-> IF i <= Len(sim_status) /\ sim_status[i] # PENDING THEN 1 ELSE 0]
    /\ handed = [i \in Rows |-> IF i <= Len(sim_status) /\ sim_status[i] = FINISHED THEN 1 ELSE 0]
    /\ invalid = {}
    /\ appended = [p \in Procs |-> {}]
    /\ LegacyInit

\* Store.__init__ up to its branch on root.keys(): a complete pair of groups
\* is loaded, an empty root is set up from simulator.sim_shapes (simulator
\* is None unless the caller passes one), anything else is a KeyError.
OpenRoot(p) ==
    /\ pc[p] = "idle"
    /\ \E simulator \in BOOLEAN :
         LET keys == Keys(root) IN
         IF keys = {"samples", "metadata"}
         THEN /\ pc' = [pc EXCEPT ![p] = "open_update"]
              /\ args' = [args EXCEPT ![p] = [op |-> "__init__", simulator |-> simulator]]
              /\ UNCHANGED <<ret, z_new, log_w_new, shape, key, idx, res, pos>>
         ELSE IF keys = {}
         THEN IF simulator
              THEN /\ pc' = [pc EXCEPT ![p] = "setup_pars"]
                   /\ args' = [args EXCEPT ![p] = [op |-> "__init__", simulator |-> simulator]]
                   /\ UNCHANGED <<ret, z_new, log_w_new, shape, key, idx, res, pos>>
              ELSE Return(p, [kind |-> "raised", op |-> "__init__", exc |-> "AttributeError"])
         ELSE Return(p, [kind |-> "raised", op |-> "__init__", exc |-> "KeyError"])
    /\ UNCHANGED <<store, lockHolder, history, root, legacy>>

\* Store._update: the five arrays are looked up in the root.
OpenUpdate(p) ==
    /\ pc[p] = "open_update"
    /\ IF Layout \subseteq root
       THEN Return(p, [kind |-> "returned", op |-> "__init__"])
       ELSE Raise(p, "KeyError")
    /\ UNCHANGED <<store, lockHolder, history, root, legacy>>

\* One creation call of _setup_new_store: zarr refuses to create what is
\* there already, otherwise a zero-length array appears at the path.
SetupArray(p, path, next) ==
    IF path \in root
    THEN /\ Raise(p, "ContainsArrayError")
         /\ UNCHANGED <<store, lockHolder, history, root, legacy>>
    ELSE /\ root' = root \cup {path}
         /\ IF next = "idle"
            THEN Return(p, [kind |-> "returned", op |-> "__init__"])
            ELSE /\ pc' = [pc EXCEPT ![p] = next]
                 /\ UNCHANGED <<locals, ret>>
         /\ UNCHANGED <<store, lockHolder, history, legacy>>

SetupPars(p) ==
    /\ pc[p] = "setup_pars"
    /\ SetupArray(p, "samples/pars", "setup_sims")

SetupSims(p) ==
    /\ pc[p] = "setup_sims"
    /\ SetupArray(p, "samples/sims", "setup_log_w")

SetupLogW(p) ==
    /\ pc[p] = "setup_log_w"
    /\ SetupArray(p, "samples/log_w", "setup_log_lambdas")

SetupLogLambdas(p) ==
    /\ pc[p] = "setup_log_lambdas"
    /\ SetupArray(p, "metadata/log_lambdas", "setup_status")

SetupStatus(p) ==
    /\ pc[p] = "setup_status"
    /\ SetupArray(p, "samples/simulation_status", "idle")

Open(p) ==
    \/ OpenRoot(p)
    \/ OpenUpdate(p)
    \/ SetupPars(p)
    \/ SetupSims(p)
    \/ SetupLogW(p)
    \/ SetupLogLambdas(p)
    \/ SetupStatus(p)

NextOpen == \E p \in Procs : Open(p)

SpecOpen == InitOpen /\ [][NextOpen]_vars

InSetup ==
    {"setup_pars", "setup_sims", "setup_log_w", "setup_log_lambdas", "setup_status"}

\* C24: a construction on a root whose keys are neither none nor exactly
\* the groups samples and metadata raises KeyError and leaves root and
\* arrays as they are; on an empty root it goes through the set-up without
\* raising and ends with the whole layout present and every array of length
\* zero; on a complete root it returns and leaves root and arrays as they
\* are.
C24_OpenByLayout ==
    [][\A p \in Procs :
          /\ (pc[p] = "idle" /\ (pc'[p] # "idle" \/ ret'[p] # ret[p])) =>
                IF Keys(root) = {"samples", "metadata"} THEN pc'[p] = "open_update"
                ELSE IF Keys(root) = {} THEN pc'[p] = "setup_pars"
                ELSE /\ pc'[p] = "idle"
                     /\ ret'[p] = [kind |-> "raised", op |-> "__init__", exc |-> "KeyError"]
                     /\ root' = root /\ store' = store
          /\ (pc[p] = "open_update" /\ pc'[p] # pc[p]) =>
                /\ ret'[p].kind = "returned"
                /\ root' = root /\ store' = store
          /\ (pc[p] \in InSetup /\ pc'[p] # pc[p]) =>
                /\ pc'[p] = "idle" => ret'[p].kind = "returned"
                /\ ret'[p].kind = "returned" =>
                      /\ Layout \subseteq root'
                      /\ pars' = <<>> /\ log_w' = <<>> /\ sim_status' = <<>>
                      /\ log_lambdas' = <<>>
                      /\ \A k \in Range(SimKeys) : sims'[k] = <<>>]_vars

\* ------------------------------------------------------- a peer that dies
\* A process dies inside simulate after it has claimed its rows and before
\* it has completed them; it takes no step afterwards.
Crash(p) ==
    /\ pc[p] \in {"sim_run", "sim_store", "sim_finish"}
    /\ pc' = [pc EXCEPT ![p] = "crashed"]
    /\ UNCHANGED <<store, lockHolder, locals, ret, history, root, legacy>>

NextCrash == \E p \in Procs : Simulate(p) \/ Crash(p)

SpecCrash == InitClaim /\ [][NextCrash]_vars

\* The rows a dead process claimed and left RUNNING.
OrphanRows ==
    {i \in 1..Len(sim_status) :
        /\ sim_status[i] = RUNNING
        /\ \E q \in Procs : pc[q] = "crashed" /\ i \in Range(idx[q])}

\* p is in wait_for_simulations on an index set that holds an orphan row.
WaitsOnOrphan(p) ==
    /\ pc[p] = "sim_wait"
    /\ Targeted(args[p], sim_status) \cap OrphanRows # {}

\* C25: a process that waits in wait_for_simulations on an index set
\* holding a row that a crashed peer left RUNNING is in the same situation
\* after every step: it never returns.
C25_WaitsForever ==
    [][\A p \in Procs : WaitsOnOrphan(p) => WaitsOnOrphan(p)']_vars

\* A process waits on a row that a crashed peer left RUNNING.
C25_Witness ==
    \E p \in Procs : WaitsOnOrphan(p)

\* ------------------------------------------------------------ failed rows
\* The rows whose simulation the simulator reported as failed, once the
\* simulate call that ran them has dealt with them or ended.
FailedRows ==
    {i \in invalid : \A p \in Procs : i \notin Range(idx[p])}

\* C26: FAILED and FINISHED are the same code; every row whose simulation
\* failed reads in the status table as a row whose simulation finished
\* does; and a wait on rows that all failed or finished is over.
C26_FailedReadsFinished ==
    /\ FAILED = FINISHED
    /\ \A i \in FailedRows : i <= Len(sim_status) /\ sim_status[i] = FINISHED
    /\ \A a \in IndexArgs :
          (/\ InBounds(a, sim_status)
           /\ \A i \in Targeted(a, sim_status) :
                 i \in FailedRows \/ sim_status[i] = FINISHED)
              => AllFinished(a, sim_status)

\* -------------------------------------------------------- results to rows
\* Row i holds, under every output name, the outputs x.
HoldsOutputs(i, x, outputs) ==
    \A k \in Range(SimKeys) : i <= Len(outputs[k]) /\ outputs[k][i] = x[k]

\* C27: the status write of simulate takes its row from RUNNING to FINISHED,
\* and when a simulate call that ran a batch ends, every row of the batch
\* that the simulator reported valid is FINISHED and holds, under every
\* output name, the outputs the simulator returned for that row's
\* parameters.
C27_ValidRowsStored ==
    [][\A p \in Procs :
          /\ (pc[p] = "sim_finish" /\ sim_status' # sim_status) =>
                /\ sim_status[idx[p][pos[p]]] = RUNNING
                /\ sim_status'[idx[p][pos[p]]] = FINISHED
          /\ (pc[p] \in {"sim_store", "sim_finish", "sim_wait"} /\ pc'[p] = "idle") =>
                \A j \in 1..Len(idx[p]) :
                    res[p][j].v = 0 =>
                       /\ idx[p][j] <= Len(sim_status')
                       /\ sim_status'[idx[p][j]] = FINISHED
                       /\ res[p][j].x = [k \in Range(SimKeys) |-> SimOut(pars[idx[p][j]], k)]
                       /\ HoldsOutputs(idx[p][j], res[p][j].x, sims')]_vars

\* ------------------------------------------------------ the legacy classes
\* Cache (src/swyft/cache.py) and DataStoreZarr (src/swyft/core.py) keep
\* their own arrays in their own root and have no lock: one process uses
\* them, and each call is one step.  An intensity object is a density and
\* a count, [pdf, N]; its value at z is N times the density, kept here as
\* a logarithm.
CacheLayout ==
    {"metadata/intensity", "samples/x", "samples/z", "samples/requires_simulation",
     "samples/failed_simulation", "samples/which_intensity"}

DataStoreLayout ==
    {"samples/x", "samples/z", "metadata/needs_sim", "metadata/intensity"}

\* The ledger of a legacy store is capped at this many records.
MaxLedger == 2

Intensities == [pdf : Pdfs, N : Ns]

\* intensity(z), as a logarithm.
LogIntensity(intensity, z) == Add(LogProb(intensity.pdf, z), Log(intensity.N))

\* Cache.intensity and DataStoreZarr.intensity: zero for an empty ledger,
\* otherwise the maximum over the records.
LegacyIntensity(u, z) ==
    IF Len(u) = 0 THEN NegInf
    ELSE MaxOf({LogIntensity(u[i], z) : i \in 1..Len(u)})

\* rej_prob = np.minimum(1, Ids / It), as a logarithm.
RejProb(Ids, It) ==
    IF Ids = NegInf THEN NegInf
    ELSE IF Ids - It > 0 THEN 0 ELSE Ids - It

\* accepted.append(rej_prob < w) for every proposed z, w = np.random.rand().
LegacyAccepted(u, intensity, z_prop, logw) ==
    [j \in 1..Len(z_prop) |->
        RejProb(LegacyIntensity(u, z_prop[j]), LogIntensity(intensity, z_prop[j])) < logw[j]]

\* One record for every call, but only when something was accepted.
AppendIfAccepted(u, intensity, n) == IF n > 0 THEN Append(u, intensity) ELSE u

\* Cache.grow, lines 225-226: u.resize(len(u) + 1); u[-1] = intensity.
CacheLedgerAfter(u, intensity, n) == Append(u, intensity)

\* DataStoreZarr._grow: the ledger is extended inside `if len(z_accepted) > 0`.
DataStoreLedgerAfter(u, intensity, n) == IF n > 0 THEN Append(u, intensity) ELSE u

\* Roots of the three classes, new.
InitLegacy ==
    /\ pars = <<>>
    /\ sims = [k \in Range(SimKeys) |-> <<>>]
    /\ log_w = <<>>
    /\ sim_status = <<>>
    /\ log_lambdas = <<>>
    /\ lockHolder = NoProc
    /\ pc = [p \in Procs |-> "idle"]
    /\ args = [p \in Procs |-> [op |-> "none"]]
    /\ z_new = [p \in Procs |-> <<>>]
    /\ log_w_new = [p \in Procs |-> <<>>]
    /\ shape = [p \in Procs |-> 0]
    /\ key = [p \in Procs |-> 1]
    /\ idx = [p \in Procs |-> <<>>]
    /\ res = [p \in Procs |-> <<>>]
    /\ pos = [p \in Procs |-> 1]
    /\ ret = [p \in Procs |-> [kind |-> "none"]]
    /\ claimed = [i \in Rows |-> 0]
    /\ handed = [i \in Rows |-> 0]
    /\ invalid = {}
    /\ appended = [p \in Procs |-> {}]
    /\ root \in {Layout, CacheLayout, DataStoreLayout}
    /\ LegacyInit

\* Cache.grow(intensity) with Cache._append_z.
CacheGrow(p) ==
    /\ pc[p] = "idle"
    /\ root = CacheLayout
    /\ Len(cache_u) < MaxLedger
    /\ \E intensity \in Intensities, K \in 0..MaxK :
         /\ Len(cache_z) + K <= MaxRows
         /\ \E z_prop \in [1..K -> Support(intensity.pdf)], logw \in [1..K -> LogUs] :
              LET z_accepted == Masked(z_prop, LegacyAccepted(cache_u, intensity, z_prop, logw))
                  n == Len(z_accepted)
              IN /\ cache_x' = Resize(cache_x, Len(cache_x) + n, SimFill)
                 /\ cache_z' = cache_z \o z_accepted
                 /\ cache_m' = cache_m \o [j \in 1..n |-> TRUE]
                 /\ cache_f' = cache_f \o [j \in 1..n |-> FALSE]
                 /\ cache_wu' = cache_wu \o [j \in 1..n |-> Len(cache_u)]
                 /\ cache_u' = CacheLedgerAfter(cache_u, intensity, n)
                 /\ Return(p, [kind |-> "returned", op |-> "grow",
                               intensity |-> intensity, accepted |-> n])
    /\ UNCHANGED <<store, lockHolder, history, root, datastore>>

\* DataStoreZarr._grow(p) with DataStoreZarr._append_z.
DataStoreGrow(p) ==
    /\ pc[p] = "idle"
    /\ root = DataStoreLayout
    /\ Len(ds_u) < MaxLedger
    /\ \E intensity \in Intensities, K \in 0..MaxK :
         /\ Len(ds_z) + K <= MaxRows
         /\ \E z_prop \in [1..K -> Support(intensity.pdf)], logw \in [1..K -> LogUs] :
              LET z_accepted == Masked(z_prop, LegacyAccepted(ds_u, intensity, z_prop, logw))
                  n == Len(z_accepted)
              IN /\ ds_x' = Resize(ds_x, Len(ds_x) + n, SimFill)
                 /\ ds_z' = ds_z \o z_accepted
                 /\ ds_m' = ds_m \o [j \in 1..n |-> TRUE]
                 /\ ds_u' = DataStoreLedgerAfter(ds_u, intensity, n)
                 /\ Return(p, [kind |-> "returned", op |-> "_grow",
                               intensity |-> intensity, accepted |-> n])
    /\ UNCHANGED <<store, lockHolder, history, root, cache>>

\* What a simulator may hand back: nothing (None), an output with a
\* non-finite entry, or the finite output for z.
NoOutput == -2
NonFinite == -1

SimulatorOutputs(z) == {NoOutput, NonFinite, SimOut(z, "x")}

\* np.all(np.isfinite(x))
AllFinite(x) == x # NonFinite

\* Cache._simulator_succeeded(x, fail_on_non_finite)
SimulatorSucceeded(x, fail_on_non_finite) ==
    IF x = NoOutput THEN FALSE
    ELSE IF fail_on_non_finite /\ AllFinite(x) THEN FALSE
    ELSE TRUE

\* Cache._require_sim_idx: the rows whose requires_simulation flag is set.
RequireSimIdx(m) == {i \in 1..Len(m) : m[i]}

\* A simulate whose failed rows lose their requires-simulation flag.
CacheSimulateDropsFailed(p) ==
    /\ pc[p] = "idle"
    /\ root = CacheLayout
    /\ \E fail_on_non_finite \in BOOLEAN :
         LET rows == RequireSimIdx(cache_m)
         IN \E x \in [rows -> UNION {SimulatorOutputs(z) : z \in Z}] :
              /\ \A i \in rows : x[i] \in SimulatorOutputs(cache_z[i])
              /\ LET ok == {i \in rows : SimulatorSucceeded(x[i], fail_on_non_finite)}
                     success == ok = rows
                 IN /\ cache_x' = [i \in 1..Len(cache_x) |->
                                      IF i \in ok THEN x[i] ELSE cache_x[i]]
                    /\ cache_m' = [i \in 1..Len(cache_m) |->
                                      IF i \in rows THEN FALSE ELSE cache_m[i]]
                    /\ cache_f' = [i \in 1..Len(cache_f) |->
                                      IF i \in ok THEN FALSE
                                      ELSE IF i \in rows THEN TRUE ELSE cache_f[i]]
                    /\ Return(p, [kind |-> "returned", op |-> "simulate",
                                  fail_on_non_finite |-> fail_on_non_finite,
                                  rows |-> rows, x |-> x,
                                  value |-> IF rows = {} THEN "None"
                                            ELSE IF success THEN "True" ELSE "False",
                                  warned |-> rows # {} /\ ~success])
    /\ UNCHANGED <<cache_z, cache_wu, cache_u>>
    /\ UNCHANGED <<store, lockHolder, history, root, datastore>>

\* Cache.simulate(simulator, fail_on_non_finite): every row that requires a
\* simulation is run; _add_sim stores the output and clears both flags,
\* _failed_sim sets the failed flag; without such a row the call returns
\* None, otherwise it warns unless all succeeded and returns success.
CacheSimulate(p) ==
    /\ pc[p] = "idle"
    /\ root = CacheLayout
    /\ \E fail_on_non_finite \in BOOLEAN :
         LET rows == RequireSimIdx(cache_m)
         IN \E x \in [rows -> UNION {SimulatorOutputs(z) : z \in Z}] :
              /\ \A i \in rows : x[i] \in SimulatorOutputs(cache_z[i])
              /\ LET ok == {i \in rows : SimulatorSucceeded(x[i], fail_on_non_finite)}
                     success == ok = rows
                 IN /\ cache_x' = [i \in 1..Len(cache_x) |->
                                      IF i \in ok THEN x[i] ELSE cache_x[i]]
                    /\ cache_m' = [i \in 1..Len(cache_m) |->
                                      IF i \in ok THEN FALSE ELSE cache_m[i]]
                    /\ cache_f' = [i \in 1..Len(cache_f) |->
                                      IF i \in ok THEN FALSE
                                      ELSE IF i \in rows THEN TRUE ELSE cache_f[i]]
                    /\ Return(p, [kind |-> "returned", op |-> "simulate",
                                  fail_on_non_finite |-> fail_on_non_finite,
                                  rows |-> rows, x |-> x,
                                  value |-> IF rows = {} THEN "None"
                                            ELSE IF success THEN "True" ELSE "False",
                                  warned |-> rows # {} /\ ~success])
    /\ UNCHANGED <<cache_z, cache_wu, cache_u>>
    /\ UNCHANGED <<store, lockHolder, history, root, datastore>>

\* accept_prob = I_target[i] / I_ds[i], as a logarithm.
AcceptProb(It, Ids) == IF It = NegInf THEN NegInf ELSE It - Ids

\* assert accept_prob <= 1: a ratio over a zero store intensity is inf or
\* nan and fails the comparison.
RatioAtMostOne(It, Ids) == Ids # NegInf /\ It <= Ids

\* The selection pass of Cache.sample and DataStoreZarr.sample over the
\* rows z with the ledger u: the assertion at every row, then the rows with
\* accept_prob > w.
SelectionAsserts(u, intensity, z) ==
    \A i \in 1..Len(z) : RatioAtMostOne(LogIntensity(intensity, z[i]), LegacyIntensity(u, z[i]))

SelectionAccepted(u, intensity, z, logw) ==
    {i \in 1..Len(z) :
        AcceptProb(LogIntensity(intensity, z[i]), LegacyIntensity(u, z[i])) > logw[i]}

\* Cache.sample(intensity): grow, then the selection pass.
CacheSample(p) ==
    /\ pc[p] = "idle"
    /\ root = CacheLayout
    /\ Len(cache_u) < MaxLedger
    /\ \E intensity \in Intensities, K \in 0..MaxK :
         /\ Len(cache_z) + K <= MaxRows
         /\ \E z_prop \in [1..K -> Support(intensity.pdf)], logw \in [1..K -> LogUs] :
              LET z_accepted == Masked(z_prop, LegacyAccepted(cache_u, intensity, z_prop, logw))
                  n == Len(z_accepted)
                  u == CacheLedgerAfter(cache_u, intensity, n)
                  z == cache_z \o z_accepted
              IN /\ cache_x' = Resize(cache_x, Len(cache_x) + n, SimFill)
                 /\ cache_z' = z
                 /\ cache_m' = cache_m \o [j \in 1..n |-> TRUE]
                 /\ cache_f' = cache_f \o [j \in 1..n |-> FALSE]
                 /\ cache_wu' = cache_wu \o [j \in 1..n |-> Len(cache_u)]
                 /\ cache_u' = u
                 /\ IF SelectionAsserts(u, intensity, z)
                    THEN \E logv \in [1..Len(z) -> LogUs] :
                            Return(p, [kind |-> "returned", op |-> "sample",
                                       intensity |-> intensity, accepted |-> n,
                                       indices |-> SelectionAccepted(u, intensity, z, logv)])
                    ELSE Return(p, [kind |-> "raised", op |-> "sample",
                                    exc |-> "AssertionError"])
    /\ UNCHANGED <<store, lockHolder, history, root, datastore>>

\* DataStoreZarr.sample(p): _grow, then the selection pass.
DataStoreSample(p) ==
    /\ pc[p] = "idle"
    /\ root = DataStoreLayout
    /\ Len(ds_u) < MaxLedger
    /\ \E intensity \in Intensities, K \in 0..MaxK :
         /\ Len(ds_z) + K <= MaxRows
         /\ \E z_prop \in [1..K -> Support(intensity.pdf)], logw \in [1..K -> LogUs] :
              LET z_accepted == Masked(z_prop, LegacyAccepted(ds_u, intensity, z_prop, logw))
                  n == Len(z_accepted)
                  u == DataStoreLedgerAfter(ds_u, intensity, n)
                  z == ds_z \o z_accepted
              IN /\ ds_x' = Resize(ds_x, Len(ds_x) + n, SimFill)
                 /\ ds_z' = z
                 /\ ds_m' = ds_m \o [j \in 1..n |-> TRUE]
                 /\ ds_u' = u
                 /\ IF SelectionAsserts(u, intensity, z)
                    THEN \E logv \in [1..Len(z) -> LogUs] :
                            Return(p, [kind |-> "returned", op |-> "sample",
                                       intensity |-> intensity, accepted |-> n,
                                       indices |-> SelectionAccepted(u, intensity, z, logv)])
                    ELSE Return(p, [kind |-> "raised", op |-> "sample",
                                    exc |-> "AssertionError"])
    /\ UNCHANGED <<store, lockHolder, history, root, cache>>

\* Store.sample on a root that a Store owns.
StoreSample(p) ==
    /\ root = Layout
    /\ Sample(p)

NextLegacy ==
    \/ StoreSample(Caller)
    \/ CacheGrow(Caller)
    \/ CacheSample(Caller)
    \/ CacheSimulate(Caller)
    \/ DataStoreGrow(Caller)
    \/ DataStoreSample(Caller)

SpecLegacy == InitLegacy /\ [][NextLegacy]_vars

\* C29: every Cache.grow call leaves the ledger one record longer, the new
\* record being the call's intensity after the old ones, whatever the number
\* of accepted candidates; a DataStoreZarr._grow call does so when it
\* accepted a candidate and leaves the ledger alone when it accepted none;
\* and a Store.sample call changes the ledger only when it accepted a
\* candidate.
C29_RecordPerGrow ==
    [][\A p \in Procs :
          /\ (root = CacheLayout /\ ret'[p].kind # "none" /\ ret'[p].op = "grow"
              /\ cache' # cache) =>
                cache_u' = Append(cache_u, ret'[p].intensity)
          /\ (root = CacheLayout /\ ret'[p].kind # "none" /\ ret'[p].op = "grow"
              /\ ret'[p].accepted = 0) => Len(cache_u') = Len(cache_u) + 1
          /\ (root = DataStoreLayout /\ ret'[p].kind # "none" /\ ret'[p].op = "_grow"
              /\ (datastore' # datastore \/ ret'[p] # ret[p])) =>
                ds_u' = IF ret'[p].accepted > 0 THEN Append(ds_u, ret'[p].intensity)
                        ELSE ds_u
          /\ (root = Layout /\ log_lambdas' # log_lambdas /\ pc'[p] # pc[p]) =>
                Len(z_new[p]) > 0]_vars

\* A Cache.grow call that accepted no candidate has returned, and the ledger
\* holds its record.
C29_Witness ==
    /\ root = CacheLayout
    /\ ret[Caller].kind = "returned" /\ ret[Caller].op = "grow"
    /\ ret[Caller].accepted = 0
    /\ Len(cache_u) > 0 /\ cache_u[Len(cache_u)] = ret[Caller].intensity
    /\ Len(cache_u) > Len(cache_z)

\* C30: in a Cache.simulate call with fail_on_non_finite, an output counts
\* as failed exactly when it is missing or holds a non-finite value: a row
\* whose output is all finite has that output stored and its
\* requires-simulation flag cleared, a row whose output failed has its
\* failed flag set and the call warns and returns False, and a call that
\* ran simulations returns True exactly when none of them failed.
C30_FailureIffMissingOrNonFinite ==
    [][\A p \in Procs :
          (/\ root = CacheLayout
           /\ ret'[p].kind # "none" /\ ret'[p].op = "simulate"
           /\ ret'[p].fail_on_non_finite
           /\ ret'[p].rows = RequireSimIdx(cache_m) /\ ret'[p].rows # {}
           /\ (cache' # cache \/ ret'[p] # ret[p])) =>
              LET failed == {i \in ret'[p].rows : ret'[p].x[i] \in {NoOutput, NonFinite}}
              IN /\ \A i \in ret'[p].rows \ failed :
                       cache_x'[i] = ret'[p].x[i] /\ ~cache_m'[i]
                 /\ \A i \in failed : cache_f'[i]
                 /\ failed # {} => (ret'[p].warned /\ ret'[p].value = "False")
                 /\ (ret'[p].value = "True") = (failed = {})]_vars

\* ------------------------------------------------- an append with old shape
\* A sample call that accepted one candidate on the empty store has read the
\* shape of the output array (_append_z, lines 219-220) and has not resized
\* yet; in the meantime other sample and simulate calls have brought the
\* store to 0..MaxRows rows in any status.
InitStale ==
    /\ \E n \in 0..MaxRows :
         /\ sim_status \in [1..n -> SimulationStatus]
         /\ pars = [i \in 1..n |-> 1]
         /\ log_w = [i \in 1..n |-> 0]
         /\ log_lambdas = IF n = 0 THEN <<>> ELSE <<[pdf |-> StateDict("wide"), N |-> 2]>>
    /\ sims = [k \in Range(SimKeys) |->
                 [i \in 1..Len(sim_status) |->
                     IF sim_status[i] = FINISHED THEN SimOut(pars[i], k) ELSE SimFill]]
    /\ lockHolder = NoProc
    /\ pc = [p \in Procs |-> IF p = Caller THEN "az_resize" ELSE "idle"]
    /\ args = [p \in Procs |-> IF p = Caller THEN [op |-> "sample", N |-> 2, pdf |-> "wide"]
                               ELSE [op |-> "none"]]
    /\ \E z \in Z : z_new = [p \in Procs |-> IF p = Caller THEN <<z>> ELSE <<>>]
    /\ log_w_new = [p \in Procs |-> IF p = Caller THEN <<0>> ELSE <<>>]
    /\ shape = [p \in Procs |-> IF p = Caller THEN 1 ELSE 0]
    /\ key = [p \in Procs |-> 1]
    /\ idx = [p \in Procs |-> <<>>]
    /\ res = [p \in Procs |-> <<>>]
    /\ pos = [p \in Procs |-> 1]
    /\ ret = [p \in Procs |-> [kind |-> "none"]]
    /\ claimed = [i \in Rows |-> IF i <= Len(sim_status) /\ sim_status[i] # PENDING THEN 1 ELSE 0]
    /\ handed = [i \in Rows |-> IF i <= Len(sim_status) /\ sim_status[i] = FINISHED THEN 1 ELSE 0]
    /\ invalid = {}
    /\ appended = [p \in Procs |-> {}]
    /\ root = Layout
    /\ LegacyInit

SpecStale == InitStale /\ [][Next]_vars

\* Store.__getitem__(i): the outputs of row i under every name and its
\* parameters; an index an array does not have raises.
GetItem(i) ==
    IF i <= Len(pars) /\ \A k \in Range(SimKeys) : i <= Len(sims[k])
    THEN [kind |-> "returned", x |-> [k \in Range(SimKeys) |-> sims[k][i]], z |-> pars[i]]
    ELSE [kind |-> "raised", exc |-> "IndexError"]

\* C31: in every state, a row whose status reads FINISHED can be read with
\* __getitem__, and the read gives, under every output name, the outputs of
\* the simulator for the row's parameters.
C31_FinishedHasOutputs ==
    \A i \in 1..Len(sim_status) :
        sim_status[i] = FINISHED =>
            /\ GetItem(i).kind = "returned"
            /\ GetItem(i).x = [k \in Range(SimKeys) |-> SimOut(pars[i], k)]

\* C32: when a simulate call returns, none of the rows it set RUNNING is
\* RUNNING: each of them reads FINISHED or FAILED.
C32_ReturnLeavesNoneRunning ==
    [][\A p \in Procs :
          (/\ pc[p] \in {"sim_set", "sim_run", "sim_store", "sim_finish", "sim_wait"}
           /\ pc'[p] = "idle" /\ ret'[p].kind = "returned") =>
              \A i \in Range(idx[p]) :
                  /\ i <= Len(sim_status')
                  /\ sim_status'[i] \in {FINISHED, FAILED}]_vars

\* -------------------------------------------------- the lock and the batch
\* The part of simulate after unlock: the simulator run, the storing of
\* its results and the wait.
PastUnlock == {"sim_run", "sim_store", "sim_finish", "sim_wait"}

\* C33: a process that is in simulate past the claim (running the simulator,
\* storing results or waiting) does not hold the lock, so an idle peer that
\* does not itself hold the lock can enter simulate and take it.
C33_RunsWithoutLock ==
    \A p \in Procs :
        pc[p] \in PastUnlock =>
            /\ lockHolder # p
            /\ \A q \in Procs \ {p} :
                  (pc[q] = "idle" /\ lockHolder # q) => ENABLED SimLock(q)

\* Two processes are past their claims at once, each with a batch of its own.
C33_Witness ==
    /\ \A p \in Procs : pc[p] \in {"sim_run", "sim_store", "sim_finish"} /\ Len(idx[p]) > 0
    /\ lockHolder = NoProc

\* C34: with one process writing, in every state, also between the steps of
\* an append, the status array is no longer than the log-weight array, that
\* no longer than the parameter array, and that no longer than any output
\* array.
C34_AppendOrder ==
    /\ Len(sim_status) <= Len(log_w)
    /\ Len(log_w) <= Len(pars)
    /\ \A k \in Range(SimKeys) : Len(pars) <= Len(sims[k])

\* The writer is inside an append that adds to a store with a row: the
\* parameters are in, the log-weight and the status are not.
C34_Witness ==
    /\ pc[Caller] = "az_log_w"
    /\ Len(sim_status) > 0
    /\ Len(sim_status) < Len(pars)
    /\ Len(log_w) < Len(pars)

\* C35: when a sample call returns its index set, every row the call added
\* is in the set, and the set lists rows of the store, each once, in
\* increasing order.
C35_OwnRowsReturned ==
    [][\A p \in Procs :
          (pc[p] = "select" /\ pc'[p] = "idle" /\ ret'[p].kind = "returned") =>
              LET indices == ret'[p].indices
              IN /\ appended[p] \subseteq Range(indices)
                 /\ \A j \in 1..Len(indices) : indices[j] \in 1..Len(pars)
                 /\ \A j \in 1..(Len(indices) - 1) : indices[j] < indices[j + 1]]_vars

\* C36: with one process, whenever no call is in progress the ledger is
\* empty exactly when the store has no rows and holds no more records than
\* the store has rows; and the ledger gets longer only by one record at a
\* time, in the resize step that a sample call takes at most once, so it
\* never holds more records than sample calls were made.
C36_LedgerWithinRows ==
    [][/\ Len(log_lambdas') <= Len(log_lambdas) + 1
       /\ Len(log_lambdas') > Len(log_lambdas) =>
             \E p \in Procs : pc[p] = "ll_resize" /\ pc'[p] = "ll_write"
       /\ \A p \in Procs :
             /\ pc[p] = "ll_write" => pc'[p] \in {"ll_write", "select"}
             /\ pc[p] = "select" => pc'[p] \in {"select", "idle"}
       /\ (\A p \in Procs : pc'[p] = "idle") =>
             /\ (Len(log_lambdas') = 0) = (Len(pars') = 0)
             /\ Len(log_lambdas') <= Len(pars')]_vars

\* Two sample calls that each added a row have completed.
C36_Witness ==
    /\ \A p \in Procs : pc[p] = "idle"
    /\ ret[Caller].kind = "returned" /\ ret[Caller].op = "sample"
    /\ Len(log_lambdas) = 2 /\ Len(pars) = 2

\* C37: a step of a simulate call that was given an explicit index set
\* leaves the status and the outputs of every row outside the set as they
\* are.
C37_OnlyTargetedRows ==
    [][\A p \in Procs :
          (/\ pc[p] \in {"sim_idx", "sim_set", "sim_run", "sim_store", "sim_finish", "sim_wait"}
           /\ ~args[p].all
           /\ <<pc[p], key[p], pos[p]>> # <<pc'[p], key'[p], pos'[p]>>) =>
              /\ Len(sim_status') = Len(sim_status)
              /\ \A i \in (1..Len(sim_status)) \ args[p].rows :
                    sim_status'[i] = sim_status[i]
              /\ \A k \in Range(SimKeys) :
                    /\ Len(sims'[k]) = Len(sims[k])
                    /\ \A i \in (1..Len(sims[k])) \ args[p].rows : sims'[k][i] = sims[k][i]]_vars

\* A simulate call on the index set {row 1} has finished its row while the
\* other row of the store is PENDING.
C37_Witness ==
    \E p \in Procs :
        /\ pc[p] = "sim_wait" /\ ~args[p].all /\ args[p].rows = {1}
        /\ Len(sim_status) = 2
        /\ sim_status[1] = FINISHED /\ sim_status[2] = PENDING

\* C38: no Cache.sample call and no DataStoreZarr.sample call ends in the
\* assertion error of its selection pass.
C38_RatioAssertionHolds ==
    [][\A p \in Procs :
          (/\ root \in {CacheLayout, DataStoreLayout}
           /\ ret'[p] # ret[p]
           /\ ret'[p].op = "sample") => ret'[p].kind = "returned"]_vars

\* C39: in a Cache, in every state a row with the failed flag has the
\* requires-simulation flag; a simulate call leaves each row it ran either
\* with both flags cleared and its output stored or with both flags set,
\* and returns True exactly when it left no row failed; and when it left a
\* row failed, requires_sim is true afterwards and the failed rows are among
\* those the next simulate call runs.
C39_FailedStillRequired ==
    [][root = CacheLayout =>
          /\ \A i \in 1..Len(cache_f') : cache_f'[i] => cache_m'[i]
          /\ \A p \in Procs :
                (/\ ret'[p].kind # "none" /\ ret'[p].op = "simulate"
                 /\ (cache' # cache \/ ret'[p] # ret[p])
                 /\ ret'[p].rows = RequireSimIdx(cache_m)) =>
                    LET ran == ret'[p].rows
                        failed == {i \in ran : cache_f'[i]}
                    IN /\ \A i \in ran \ failed :
                             ~cache_m'[i] /\ cache_x'[i] = ret'[p].x[i]
                       /\ \A i \in failed : cache_m'[i]
                       /\ ran # {} => ((ret'[p].value = "True") = (failed = {}))
                       /\ failed # {} =>
                             /\ Len(Sorted(RequireSimIdx(cache_m'))) > 0
                             /\ failed \subseteq RequireSimIdx(cache_m')]_vars

\* A simulate call on two rows has returned False: one row is failed and
\* still requires a simulation, the other has both flags cleared.
C39_Witness ==
    /\ root = CacheLayout
    /\ ret[Caller].kind = "returned" /\ ret[Caller].op = "simulate"
    /\ ret[Caller].value = "False"
    /\ \E i, j \in 1..Len(cache_m) :
          /\ cache_f[i] /\ cache_m[i]
          /\ ~cache_f[j] /\ ~cache_m[j]

====
